---- MODULE Spec2Model ----
(***************************************************************************)
(* Book Library Management API (app/endpoints.py, app/models.py,           *)
(* app/auth.py, app/schemas.py, app/database.py).                          *)
(*                                                                         *)
(* The store is the three tables of app/models.py, each a sequence of rows *)
(* in insertion (rowid) order.  Spec runs every request handler as one     *)
(* step (one session at a time); SpecConc runs two sessions whose          *)
(* statements (query, query, commit) interleave.                           *)
(***************************************************************************)
EXTENDS Integers, Sequences, FiniteSets, TLC

VARIABLES authors, books, loans, now, last, wk

store == <<authors, books, loans>>
vars == <<authors, books, loans, now, last, wk>>

----------------------------------------------------------------------------
(* Bounds of the model *)

\* rows the model lets the authors and loan_records tables hold; the books
\* table is bounded by the ISBN values, each held by at most one book
MaxAuthors == 1
MaxLoans == 2
\* largest skip and limit the list operations are called with
MaxSkip == 2
MaxLimit == 2

----------------------------------------------------------------------------
(* Values *)

\* Python's None / SQL NULL, for the string-valued fields and the API key
None == "None"
\* an absent returned_at is the empty sequence, a set one is <<t>>
NoTime == << >>

AUTH_KEY == "dev-secret-key-12345"
Keys == {None, "wrong-key", AUTH_KEY}

Names == {"Ann"}
Bios == {None}
Titles == {"Dune"}
Genres == {"Fiction"}
Isbns == {"1111111111", "2222222222"}
Borrowers == {"John", "Jane"}

AuthorIds == 1..(MaxAuthors + 1)
BookIds == 1..(Cardinality(Isbns) + 1)
LoanIds == 1..(MaxLoans + 1)

\* the sessions (get_db yields one per request) that run at the same time
Workers == {1, 2}

UpdateFields == {"title", "genre", "isbn"}
FieldValues(f) ==
    CASE f = "title" -> Titles \cup {None}
      [] f = "genre" -> Genres \cup {None}
      [] f = "isbn" -> Isbns \cup {None}

\* BookUpdate.model_dump(exclude_unset=True): the keys the caller supplied,
\* each with a string or an explicit null
UpdateDatas ==
    UNION {{d \in [ks -> Titles \cup Genres \cup Isbns \cup {None}] :
               \A f \in ks : d[f] \in FieldValues(f)} : ks \in SUBSET UpdateFields}

----------------------------------------------------------------------------
(* Tables and queries *)

Rows(tbl) == {tbl[i] : i \in DOMAIN tbl}

MaxOf(S) == IF S = {} THEN 0 ELSE CHOOSE x \in S : \A y \in S : y <= x

\* the largest id of the table handed out again
NextIdReuses(tbl) ==
    IF tbl = << >> THEN 1 ELSE MaxOf({r.id : r \in Rows(tbl)})

\* Integer primary key: one more than the largest id of the table
NextId(tbl) == MaxOf({r.id : r \in Rows(tbl)}) + 1

\* db.query(models.Author).filter(models.Author.id == id)
AuthorsById(as, id) == {a \in Rows(as) : a.id = id}

\* db.query(models.Book).filter(models.Book.id == id)
BooksById(bs, id) == {b \in Rows(bs) : b.id = id}

\* db.query(models.Book).filter(models.Book.isbn == isbn)
BooksByIsbn(bs, isbn) == {b \in Rows(bs) : b.isbn = isbn}

\* the query filtering on the loan's id in place of its book_id
ActiveLoansByLoanId(ls, book_id) ==
    {l \in Rows(ls) : l.id = book_id /\ l.is_returned = FALSE}

\* the query without its is_returned filter
ActiveLoansAnyStatus(ls, book_id) == {l \in Rows(ls) : l.book_id = book_id}

\* the query with the is_returned flag compared to True
ActiveLoansFlagInverted(ls, book_id) ==
    {l \in Rows(ls) : l.book_id = book_id /\ l.is_returned = TRUE}

\* db.query(models.LoanRecord).filter(book_id == id, is_returned == False)
ActiveLoans(ls, book_id) ==
    {l \in Rows(ls) : l.book_id = book_id /\ l.is_returned = FALSE}

\* db.query(models.LoanRecord).filter(models.LoanRecord.id == id)
LoansById(ls, id) == {l \in Rows(ls) : l.id = id}

\* the table with the row of that id replaced (UPDATE ... WHERE id = ?)
ReplaceRow(tbl, row) ==
    [i \in DOMAIN tbl |-> IF tbl[i].id = row.id THEN row ELSE tbl[i]]

----------------------------------------------------------------------------
(* Constraints of the schema, enforced by the store at commit *)

\* nullable=False on Book.title, Book.genre, Book.isbn
BookNotNull(b) == b.title # None /\ b.genre # None /\ b.isbn # None

\* unique=True on Book.isbn
IsbnUnique(bs) == \A b \in Rows(bs) : BooksByIsbn(bs, b.isbn) = {b}

BooksCommitOK(bs) == (\A b \in Rows(bs) : BookNotNull(b)) /\ IsbnUnique(bs)

----------------------------------------------------------------------------
(* Rows *)

AuthorRow(id, name, bio) == [id |-> id, name |-> name, bio |-> bio]

BookRow(id, title, genre, isbn, author_id) ==
    [id |-> id, title |-> title, genre |-> genre, isbn |-> isbn,
     author_id |-> author_id]

\* models.LoanRecord(book_id, borrower_name, loaned_at=datetime.now(),
\* is_returned=False); returned_at is left NULL
LoanRow(id, book_id, borrower_name, t) ==
    [id |-> id, book_id |-> book_id, borrower_name |-> borrower_name,
     loaned_at |-> t, returned_at |-> NoTime, is_returned |-> FALSE]

\* the test never taken
AlreadyReturnedNever(loan) == FALSE

\* if loan.is_returned is True
AlreadyReturned(loan) == loan.is_returned = TRUE

\* the return stamped into loaned_at as well
ReturnedRowRestampsLoan(l, t) ==
    [l EXCEPT !.is_returned = TRUE, !.returned_at = <<t>>, !.loaned_at = t]

\* the flag set without the time
ReturnedRowFlagOnly(l, t) == [l EXCEPT !.is_returned = TRUE]

\* loan.is_returned = True; loan.returned_at = datetime.now()
ReturnedRow(l, t) == [l EXCEPT !.is_returned = TRUE, !.returned_at = <<t>>]

\* the loop skipping the genre key
UpdatedRowKeepsGenre(cur, snap, d) ==
    [f \in DOMAIN cur |-> IF f \in DOMAIN d /\ f # "genre" /\ d[f] # snap[f]
                          THEN d[f]
                          ELSE cur[f]]

\* for key, value in update_data.items(): setattr(db_book, key, value);
\* db.commit() writes the attributes whose value differs from the one the
\* session loaded (snap) into the row as it is in the table now (cur)
UpdatedRow(cur, snap, d) ==
    [f \in DOMAIN cur |-> IF f \in DOMAIN d /\ d[f] # snap[f] THEN d[f]
                                                              ELSE cur[f]]

----------------------------------------------------------------------------
(* Responses *)

NoBody == << >>

Response(op, status, detail, body) ==
    [op |-> op, status |-> status, detail |-> detail, body |-> body]

\* verify_api_key accepting whatever key is present
AuthStatusAnyKey(api_key) == IF api_key = None THEN 401 ELSE 0

\* verify_api_key: 0 when the key is accepted, else the status it raises
AuthStatus(api_key) ==
    IF api_key = None THEN 401
    ELSE IF api_key # AUTH_KEY THEN 403
    ELSE 0

Denied(api_key) ==
    Response("verify_api_key", AuthStatus(api_key),
             IF api_key = None THEN <<"API Key is missing">>
             ELSE <<"Invalid API Key">>, NoBody)

----------------------------------------------------------------------------
(* Request handlers, one session at a time: each handler runs from its     *)
(* dependency verify_api_key to its commit as one step.                    *)
(* now is the value the next datetime.now() returns; the clock moves on    *)
(* with every reading, so later readings are later times.                  *)

\* POST /authors
CreateAuthor(api_key, name, bio) ==
    /\ UNCHANGED <<books, loans, now, wk>>
    /\ IF AuthStatus(api_key) # 0
       THEN /\ last' = Denied(api_key)
            /\ UNCHANGED authors
       ELSE LET row == AuthorRow(NextId(authors), name, bio) IN
            /\ Len(authors) < MaxAuthors
            /\ authors' = Append(authors, row)
            /\ last' = Response("create_author", 201, << >>, row)

\* create_book with the ISBN looked up before the author
CreateBookCheckIsbnFirst(as, bs, isbn, author_id) ==
    IF BooksByIsbn(bs, isbn) # {} THEN 400
    ELSE IF AuthorsById(as, author_id) = {} THEN 404
    ELSE 0

\* create_book without its own ISBN lookup, leaving it to the constraint
CreateBookCheckNoIsbn(as, bs, isbn, author_id) ==
    IF AuthorsById(as, author_id) = {} THEN 404 ELSE 0

\* the checks of create_book, in their order: the status of the
\* HTTPException raised, 0 when none is
CreateBookCheck(as, bs, isbn, author_id) ==
    IF AuthorsById(as, author_id) = {} THEN 404
    ELSE IF BooksByIsbn(bs, isbn) # {} THEN 400
    ELSE 0

\* POST /books
CreateBook(api_key, title, genre, isbn, author_id) ==
    LET check == CreateBookCheck(authors, books, isbn, author_id)
        row == BookRow(NextId(books), title, genre, isbn, author_id)
        bs == Append(books, row) IN
    /\ UNCHANGED <<authors, loans, now, wk>>
    /\ IF AuthStatus(api_key) # 0
       THEN /\ last' = Denied(api_key)
            /\ UNCHANGED books
       ELSE IF check = 404
       THEN /\ last' = Response("create_book", 404,
                                <<"Author not found", author_id>>, NoBody)
            /\ UNCHANGED books
       ELSE IF check = 400
       THEN /\ last' = Response("create_book", 400,
                                <<"ISBN already exists", isbn>>, NoBody)
            /\ UNCHANGED books
       ELSE IF BooksCommitOK(bs)
       THEN /\ books' = bs
            /\ last' = Response("create_book", 201, << >>, row)
       ELSE /\ last' = Response("create_book", 500, <<"IntegrityError">>,
                                NoBody)
            /\ UNCHANGED books

\* the ISBN lookup made for every supplied isbn, the book's own included
UpdateBookCheckOwnIsbn(bs, book_id, update_data) ==
    IF BooksById(bs, book_id) = {} THEN 404
    ELSE IF /\ "isbn" \in DOMAIN update_data
            /\ BooksByIsbn(bs, update_data["isbn"]) # {}
         THEN 400
         ELSE 0

\* the checks of update_book: book_id must exist; an isbn that is supplied
\* and differs from the book's own must be held by no book
UpdateBookCheck(bs, book_id, update_data) ==
    IF BooksById(bs, book_id) = {} THEN 404
    ELSE LET db_book == CHOOSE b \in BooksById(bs, book_id) : TRUE IN
         IF /\ "isbn" \in DOMAIN update_data
            /\ update_data["isbn"] # db_book.isbn
            /\ BooksByIsbn(bs, update_data["isbn"]) # {}
         THEN 400
         ELSE 0

\* update_book writing the supplied fields with no ISBN lookup, into a table
\* whose isbn column has no unique index
UpdateBookUnchecked(api_key, book_id, update_data) ==
    /\ UNCHANGED <<authors, loans, now, wk>>
    /\ IF AuthStatus(api_key) # 0
       THEN /\ last' = Denied(api_key)
            /\ UNCHANGED books
       ELSE IF BooksById(books, book_id) = {}
       THEN /\ last' = Response("update_book", 404,
                                <<"Book not found", book_id>>, NoBody)
            /\ UNCHANGED books
       ELSE LET db_book == CHOOSE b \in BooksById(books, book_id) : TRUE
                row == UpdatedRow(db_book, db_book, update_data) IN
            /\ books' = ReplaceRow(books, row)
            /\ last' = Response("update_book", 200, << >>, row)

\* PUT /books/{book_id}
UpdateBook(api_key, book_id, update_data) ==
    LET check == UpdateBookCheck(books, book_id, update_data) IN
    /\ UNCHANGED <<authors, loans, now, wk>>
    /\ IF AuthStatus(api_key) # 0
       THEN /\ last' = Denied(api_key)
            /\ UNCHANGED books
       ELSE IF check = 404
       THEN /\ last' = Response("update_book", 404,
                                <<"Book not found", book_id>>, NoBody)
            /\ UNCHANGED books
       ELSE IF check = 400
       THEN /\ last' = Response("update_book", 400,
                                <<"ISBN already exists", update_data["isbn"]>>,
                                NoBody)
            /\ UNCHANGED books
       ELSE LET db_book == CHOOSE b \in BooksById(books, book_id) : TRUE
                row == UpdatedRow(db_book, db_book, update_data)
                bs == ReplaceRow(books, row) IN
            IF BooksCommitOK(bs)
            THEN /\ books' = bs
                 /\ last' = Response("update_book", 200, << >>, row)
            ELSE /\ last' = Response("update_book", 500,
                                     <<"IntegrityError">>, NoBody)
                 /\ UNCHANGED books

\* loan_book without its book query
LoanBookCheckNoBook(bs, ls, book_id) ==
    IF ActiveLoans(ls, book_id) # {} THEN 400 ELSE 0

\* the checks of loan_book: the book must exist and have no unreturned loan
LoanBookCheck(bs, ls, book_id) ==
    IF BooksById(bs, book_id) = {} THEN 404
    ELSE IF ActiveLoans(ls, book_id) # {} THEN 400
    ELSE 0

\* POST /books/{book_id}/loan
LoanBook(api_key, book_id, borrower_name) ==
    LET check == LoanBookCheck(books, loans, book_id)
        row == LoanRow(NextId(loans), book_id, borrower_name, now) IN
    /\ UNCHANGED <<authors, books, wk>>
    /\ IF AuthStatus(api_key) # 0
       THEN /\ last' = Denied(api_key)
            /\ UNCHANGED <<loans, now>>
       ELSE IF check = 404
       THEN /\ last' = Response("loan_book", 404,
                                <<"Book not found", book_id>>, NoBody)
            /\ UNCHANGED <<loans, now>>
       ELSE IF check = 400
       THEN /\ \E active_loan \in ActiveLoans(loans, book_id) :
                  last' = Response("loan_book", 400,
                                   <<"Book is already loaned out to",
                                     active_loan.borrower_name>>, NoBody)
            /\ UNCHANGED <<loans, now>>
       ELSE /\ Len(loans) < MaxLoans
            /\ loans' = Append(loans, row)
            /\ now' = now + 1
            /\ last' = Response("loan_book", 201, << >>, row)

\* the checks of return_book: the loan must exist and not be returned yet
ReturnBookCheck(ls, loan_id) ==
    IF LoansById(ls, loan_id) = {} THEN 404
    ELSE IF AlreadyReturned(CHOOSE l \in LoansById(ls, loan_id) : TRUE)
    THEN 400
    ELSE 0

\* return_book stamping returned_at before it looks at the flag
ReturnBookRestamps(api_key, loan_id) ==
    /\ UNCHANGED <<authors, books, wk>>
    /\ IF AuthStatus(api_key) # 0
       THEN /\ last' = Denied(api_key)
            /\ UNCHANGED <<loans, now>>
       ELSE IF LoansById(loans, loan_id) = {}
       THEN /\ last' = Response("return_book", 404,
                                <<"Loan record not found", loan_id>>, NoBody)
            /\ UNCHANGED <<loans, now>>
       ELSE LET loan == CHOOSE l \in LoansById(loans, loan_id) : TRUE
                row == ReturnedRow(loan, now) IN
            /\ loans' = ReplaceRow(loans, row)
            /\ now' = now + 1
            /\ last' = IF loan.is_returned
                       THEN Response("return_book", 400,
                                     <<"This book has already been returned">>,
                                     NoBody)
                       ELSE Response("return_book", 200, << >>, row)

\* return_book flipping the flag of whatever record it is given
ReturnBookToggles(api_key, loan_id) ==
    /\ UNCHANGED <<authors, books, wk>>
    /\ IF AuthStatus(api_key) # 0
       THEN /\ last' = Denied(api_key)
            /\ UNCHANGED <<loans, now>>
       ELSE IF LoansById(loans, loan_id) = {}
       THEN /\ last' = Response("return_book", 404,
                                <<"Loan record not found", loan_id>>, NoBody)
            /\ UNCHANGED <<loans, now>>
       ELSE LET loan == CHOOSE l \in LoansById(loans, loan_id) : TRUE
                row == [loan EXCEPT !.is_returned = ~loan.is_returned,
                                    !.returned_at = <<now>>] IN
            /\ loans' = ReplaceRow(loans, row)
            /\ now' = now + 1
            /\ last' = Response("return_book", 200, << >>, row)

\* POST /loans/{loan_id}/return
ReturnBook(api_key, loan_id) ==
    LET check == ReturnBookCheck(loans, loan_id) IN
    /\ UNCHANGED <<authors, books, wk>>
    /\ IF AuthStatus(api_key) # 0
       THEN /\ last' = Denied(api_key)
            /\ UNCHANGED <<loans, now>>
       ELSE IF check = 404
       THEN /\ last' = Response("return_book", 404,
                                <<"Loan record not found", loan_id>>, NoBody)
            /\ UNCHANGED <<loans, now>>
       ELSE IF check = 400
       THEN /\ last' = Response("return_book", 400,
                                <<"This book has already been returned">>,
                                NoBody)
            /\ UNCHANGED <<loans, now>>
       ELSE LET loan == CHOOSE l \in LoansById(loans, loan_id) : TRUE
                row == ReturnedRow(loan, now) IN
            /\ loans' = ReplaceRow(loans, row)
            /\ now' = now + 1
            /\ last' = Response("return_book", 200, << >>, row)

----------------------------------------------------------------------------
(* Specification: requests served one at a time *)

\* a session no request has been given to
Idle == [pc |-> "idle", op |-> "none", req |-> << >>, snap |-> << >>,
         resp |-> Response("none", 0, << >>, NoBody)]

Init ==
    /\ authors = << >>
    /\ books = << >>
    /\ loans = << >>
    /\ now = 0
    /\ last = Response("none", 0, << >>, NoBody)
    /\ wk = [w \in Workers |-> Idle]

\* The arguments a request is tried with: verify_api_key runs before the
\* handler reads any of them, so a rejected request is tried with one value.
Args(api_key, S) == IF AuthStatus(api_key) = 0 THEN S ELSE {CHOOSE x \in S : TRUE}

\* update_book reads its body (update_data) only once it has found the book
UpdateArgs(api_key, book_id) ==
    IF AuthStatus(api_key) = 0 /\ BooksById(books, book_id) # {}
    THEN UpdateDatas
    ELSE {CHOOSE d \in UpdateDatas : TRUE}

Next ==
    \/ \E k \in Keys : \E n \in Args(k, Names), b \in Args(k, Bios) :
          CreateAuthor(k, n, b)
    \/ \E k \in Keys : \E t \in Args(k, Titles), g \in Args(k, Genres),
                           i \in Args(k, Isbns), a \in Args(k, AuthorIds) :
          CreateBook(k, t, g, i, a)
    \/ \E k \in Keys : \E id \in Args(k, BookIds) :
          \E d \in UpdateArgs(k, id) : UpdateBook(k, id, d)
    \/ \E k \in Keys : \E id \in Args(k, BookIds), n \in Args(k, Borrowers) :
          LoanBook(k, id, n)
    \/ \E k \in Keys : \E id \in Args(k, LoanIds) : ReturnBook(k, id)

Spec == Init /\ [][Next]_vars

----------------------------------------------------------------------------
(* Two sessions at a time.  Each session serves one request; its handler   *)
(* runs statement by statement (query, query, commit), every statement     *)
(* reading or writing the committed tables as they are at that moment, and *)
(* the statements of the two sessions interleave.  wk[w] is what session w *)
(* holds between statements: its request, the row it loaded, its response. *)

Running(w, op, pc) == wk[w].op = op /\ wk[w].pc = pc

Goto(w, pc) == wk' = [wk EXCEPT ![w].pc = pc]

Finish(w, resp) == wk' = [wk EXCEPT ![w].pc = "done", ![w].resp = resp]

\* the requests the two sessions are given; update_book requests carry
\* the isbn alone
ConcUpdateDatas == {d \in UpdateDatas : DOMAIN d \subseteq {"isbn"}}

Requests ==
    {[op |-> "create_author", req |-> [name |-> n, bio |-> b]] :
        n \in Names, b \in Bios}
    \cup {[op |-> "create_book",
           req |-> [title |-> t, genre |-> g, isbn |-> i, author_id |-> a]] :
             t \in Titles, g \in Genres, i \in Isbns, a \in AuthorIds}
    \cup {[op |-> "update_book", req |-> [book_id |-> id, update_data |-> d]] :
             id \in BookIds, d \in ConcUpdateDatas}
    \cup {[op |-> "loan_book", req |-> [book_id |-> id, borrower_name |-> n]] :
             id \in BookIds, n \in Borrowers}
    \cup {[op |-> "return_book", req |-> [loan_id |-> id]] : id \in LoanIds}

\* a request arrives: the route's dependency verify_api_key runs, and the
\* handler starts only when it raises nothing
Receive(w, api_key, r) ==
    /\ wk[w].pc = "idle"
    /\ IF AuthStatus(api_key) # 0
       THEN wk' = [wk EXCEPT ![w] = [pc |-> "done", op |-> r.op,
                                     req |-> r.req, snap |-> << >>,
                                     resp |-> Denied(api_key)]]
       ELSE wk' = [wk EXCEPT ![w] = [pc |-> "start", op |-> r.op,
                                     req |-> r.req, snap |-> << >>,
                                     resp |-> Idle.resp]]
    /\ UNCHANGED <<authors, books, loans, now, last>>

\* create_author: db.add(db_author); db.commit(); db.refresh(db_author)
CreateAuthorCommit(w) ==
    LET row == AuthorRow(NextId(authors), wk[w].req.name, wk[w].req.bio) IN
    /\ Running(w, "create_author", "start")
    /\ Len(authors) < MaxAuthors
    /\ authors' = Append(authors, row)
    /\ Finish(w, Response("create_author", 201, << >>, row))
    /\ UNCHANGED <<books, loans, now, last>>

\* create_book: the author query
CreateBookQueryAuthor(w) ==
    /\ Running(w, "create_book", "start")
    /\ IF AuthorsById(authors, wk[w].req.author_id) = {}
       THEN Finish(w, Response("create_book", 404,
                               <<"Author not found", wk[w].req.author_id>>,
                               NoBody))
       ELSE Goto(w, "query2")
    /\ UNCHANGED <<authors, books, loans, now, last>>

\* create_book: the existing_book query
CreateBookQueryIsbn(w) ==
    /\ Running(w, "create_book", "query2")
    /\ IF BooksByIsbn(books, wk[w].req.isbn) # {}
       THEN Finish(w, Response("create_book", 400,
                               <<"ISBN already exists", wk[w].req.isbn>>,
                               NoBody))
       ELSE Goto(w, "commit")
    /\ UNCHANGED <<authors, books, loans, now, last>>

\* create_book: db.add(db_book); db.commit(); db.refresh(db_book).  An
\* IntegrityError of the commit is caught nowhere: the response is a 500.
CreateBookCommit(w) ==
    LET r == wk[w].req
        row == BookRow(NextId(books), r.title, r.genre, r.isbn, r.author_id)
        bs == Append(books, row) IN
    /\ Running(w, "create_book", "commit")
    /\ IF BooksCommitOK(bs)
       THEN /\ books' = bs
            /\ Finish(w, Response("create_book", 201, << >>, row))
       ELSE /\ UNCHANGED books
            /\ Finish(w, Response("create_book", 500, <<"IntegrityError">>,
                                  NoBody))
    /\ UNCHANGED <<authors, loans, now, last>>

\* update_book: the db_book query; the session keeps the row it loaded
UpdateBookQueryBook(w) ==
    /\ Running(w, "update_book", "start")
    /\ IF BooksById(books, wk[w].req.book_id) = {}
       THEN Finish(w, Response("update_book", 404,
                               <<"Book not found", wk[w].req.book_id>>,
                               NoBody))
       ELSE wk' = [wk EXCEPT ![w].pc = "query2",
                             ![w].snap = CHOOSE b \in
                                 BooksById(books, wk[w].req.book_id) : TRUE]
    /\ UNCHANGED <<authors, books, loans, now, last>>

\* update_book: the existing_book query, made when an isbn is supplied that
\* differs from the loaded row's
UpdateBookQueryIsbn(w) ==
    LET d == wk[w].req.update_data IN
    /\ Running(w, "update_book", "query2")
    /\ IF /\ "isbn" \in DOMAIN d
          /\ d["isbn"] # wk[w].snap.isbn
          /\ BooksByIsbn(books, d["isbn"]) # {}
       THEN Finish(w, Response("update_book", 400,
                               <<"ISBN already exists", d["isbn"]>>, NoBody))
       ELSE Goto(w, "commit")
    /\ UNCHANGED <<authors, books, loans, now, last>>

\* update_book: setattr for every supplied key; db.commit();
\* db.refresh(db_book)
UpdateBookCommit(w) ==
    LET cur == CHOOSE b \in BooksById(books, wk[w].req.book_id) : TRUE
        row == UpdatedRow(cur, wk[w].snap, wk[w].req.update_data)
        bs == ReplaceRow(books, row) IN
    /\ Running(w, "update_book", "commit")
    /\ IF BooksCommitOK(bs)
       THEN /\ books' = bs
            /\ Finish(w, Response("update_book", 200, << >>, row))
       ELSE /\ UNCHANGED books
            /\ Finish(w, Response("update_book", 500, <<"IntegrityError">>,
                                  NoBody))
    /\ UNCHANGED <<authors, loans, now, last>>

\* loan_book: the book query
LoanBookQueryBook(w) ==
    /\ Running(w, "loan_book", "start")
    /\ IF BooksById(books, wk[w].req.book_id) = {}
       THEN Finish(w, Response("loan_book", 404,
                               <<"Book not found", wk[w].req.book_id>>,
                               NoBody))
       ELSE Goto(w, "query2")
    /\ UNCHANGED <<authors, books, loans, now, last>>

\* loan_book: the active_loan query
LoanBookQueryActive(w) ==
    /\ Running(w, "loan_book", "query2")
    /\ IF ActiveLoans(loans, wk[w].req.book_id) # {}
       THEN \E active_loan \in ActiveLoans(loans, wk[w].req.book_id) :
               Finish(w, Response("loan_book", 400,
                                  <<"Book is already loaned out to",
                                    active_loan.borrower_name>>, NoBody))
       ELSE Goto(w, "commit")
    /\ UNCHANGED <<authors, books, loans, now, last>>

\* loan_book: db.add(db_loan); db.commit(); db.refresh(db_loan).  The
\* loan_records table has no constraint on the active loans of a book.
LoanBookCommit(w) ==
    LET row == LoanRow(NextId(loans), wk[w].req.book_id,
                       wk[w].req.borrower_name, now) IN
    /\ Running(w, "loan_book", "commit")
    /\ Len(loans) < MaxLoans
    /\ loans' = Append(loans, row)
    /\ now' = now + 1
    /\ Finish(w, Response("loan_book", 201, << >>, row))
    /\ UNCHANGED <<authors, books, last>>

\* return_book: the loan query and the test of the loaded row
ReturnBookQueryLoan(w) ==
    /\ Running(w, "return_book", "start")
    /\ IF LoansById(loans, wk[w].req.loan_id) = {}
       THEN Finish(w, Response("return_book", 404,
                               <<"Loan record not found", wk[w].req.loan_id>>,
                               NoBody))
       ELSE LET loan == CHOOSE l \in LoansById(loans, wk[w].req.loan_id) : TRUE
            IN  IF AlreadyReturned(loan)
                THEN Finish(w, Response("return_book", 400,
                                <<"This book has already been returned">>,
                                NoBody))
                ELSE wk' = [wk EXCEPT ![w].pc = "commit", ![w].snap = loan]
    /\ UNCHANGED <<authors, books, loans, now, last>>

\* return_book: the two assignments; db.commit(); db.refresh(loan)
ReturnBookCommit(w) ==
    LET cur == CHOOSE l \in LoansById(loans, wk[w].req.loan_id) : TRUE
        row == ReturnedRow(cur, now) IN
    /\ Running(w, "return_book", "commit")
    /\ loans' = ReplaceRow(loans, row)
    /\ now' = now + 1
    /\ Finish(w, Response("return_book", 200, << >>, row))
    /\ UNCHANGED <<authors, books, last>>

\* Stores the service reaches serving requests one at a time, from which the
\* two sessions start
SeedAuthor == AuthorRow(1, "Ann", None)
SeedBook1 == BookRow(1, "Dune", "Fiction", "1111111111", 1)
SeedBook2 == BookRow(2, "Dune", "Fiction", "2222222222", 1)
SeedLoan == LoanRow(1, 1, "John", 0)

Seed(as, bs, ls, t) == [authors |-> as, books |-> bs, loans |-> ls, now |-> t]

Seeds ==
    { Seed(<< >>, << >>, << >>, 0),
      Seed(<<SeedAuthor>>, << >>, << >>, 0),
      Seed(<<SeedAuthor>>, <<SeedBook1>>, << >>, 0),
      Seed(<<SeedAuthor>>, <<SeedBook1, SeedBook2>>, << >>, 0),
      Seed(<<SeedAuthor>>, <<SeedBook1>>, <<SeedLoan>>, 1),
      Seed(<<SeedAuthor>>, <<SeedBook1>>, <<ReturnedRow(SeedLoan, 1)>>, 2) }

InitConc ==
    /\ \E s \in Seeds :
          /\ authors = s.authors
          /\ books = s.books
          /\ loans = s.loans
          /\ now = s.now
    /\ last = Response("none", 0, << >>, NoBody)
    /\ wk = [w \in Workers |-> Idle]

NextConc ==
    \E w \in Workers :
       \/ \E k \in Keys : \E r \in Args(k, Requests) : Receive(w, k, r)
       \/ CreateAuthorCommit(w)
       \/ CreateBookQueryAuthor(w)
       \/ CreateBookQueryIsbn(w)
       \/ CreateBookCommit(w)
       \/ UpdateBookQueryBook(w)
       \/ UpdateBookQueryIsbn(w)
       \/ UpdateBookCommit(w)
       \/ LoanBookQueryBook(w)
       \/ LoanBookQueryActive(w)
       \/ LoanBookCommit(w)
       \/ ReturnBookQueryLoan(w)
       \/ ReturnBookCommit(w)

SpecConc == InitConc /\ [][NextConc]_vars

----------------------------------------------------------------------------
(* Specification of the book catalogue alone: authors and books are        *)
(* created as in Spec, and update_book is tried with a second title and a  *)
(* second genre, so that a field an update changed differs from the value  *)
(* the book was created with.                                              *)

UpdateTitles == Titles \cup {"Emma"}
UpdateGenres == Genres \cup {"Sci-Fi"}

\* a field the request body leaves out
Unset == "Unset"

\* BookUpdate.model_dump(exclude_unset=True): the fields the body supplied,
\* each with a string or an explicit null
Supplied(title, genre, isbn) ==
    LET body == [title |-> title, genre |-> genre, isbn |-> isbn] IN
    [f \in {x \in UpdateFields : body[x] # Unset} |-> body[f]]

BookUpdateDatas ==
    {Supplied(t, g, i) : t \in UpdateTitles \cup {None, Unset},
                         g \in UpdateGenres \cup {None, Unset},
                         i \in Isbns \cup {None, Unset}}

BookUpdateArgs(api_key, book_id) ==
    IF AuthStatus(api_key) = 0 /\ BooksById(books, book_id) # {}
    THEN BookUpdateDatas
    ELSE {CHOOSE d \in BookUpdateDatas : TRUE}

NextBooks ==
    \/ \E k \in Keys : \E n \in Args(k, Names), b \in Args(k, Bios) :
          CreateAuthor(k, n, b)
    \/ \E k \in Keys : \E t \in Args(k, Titles), g \in Args(k, Genres),
                           i \in Args(k, Isbns), a \in Args(k, AuthorIds) :
          CreateBook(k, t, g, i, a)
    \/ \E k \in Keys : \E id \in Args(k, BookIds) :
          \E d \in BookUpdateArgs(k, id) : UpdateBook(k, id, d)

SpecBooks == Init /\ [][NextBooks]_vars

----------------------------------------------------------------------------
(* Read operations.  A request carries its X-API-Key header (or none) to   *)
(* every route; a route runs verify_api_key only if its decorator lists    *)
(* the dependency.                                                         *)

\* the routes declared with dependencies=[Depends(verify_api_key)]
Protected ==
    {"create_author", "create_book", "update_book", "loan_book", "return_book"}

\* every route declared with the dependency
RouteAuthEveryRoute(op, api_key) == AuthStatus(api_key)

\* the status verify_api_key raises for the route, 0 when the route does not
\* depend on it or the key is accepted
RouteAuth(op, api_key) == IF op \in Protected THEN AuthStatus(api_key) ELSE 0

Skips == 0..MaxSkip
Limits == 1..MaxLimit

\* query.offset(skip).limit(limit).all() over rows in rowid order
Window(rows, skip, limit) ==
    SubSeq(rows, skip + 1,
           IF skip + limit < Len(rows) THEN skip + limit ELSE Len(rows))

\* the characters of the strings used as genres and as genre arguments
Chars(str) ==
    CASE str = "" -> << >>
      [] str = "Fiction" -> <<"F", "i", "c", "t", "i", "o", "n">>
      [] str = "Sci-Fi" -> <<"S", "c", "i", "-", "F", "i">>
      [] str = "fic" -> <<"f", "i", "c">>
      [] str = "FI" -> <<"F", "I">>
      [] str = "ci-" -> <<"c", "i", "-">>
      [] str = "Sci_Fi" -> <<"S", "c", "i", "_", "F", "i">>
      [] str = "on" -> <<"o", "n">>
      [] str = "x" -> <<"x">>
      [] str = "_" -> <<"_">>
      [] str = "%" -> <<"%">>

\* SQL lower() on one character
Lower(c) ==
    CASE c = "F" -> "f"
      [] c = "I" -> "i"
      [] c = "S" -> "s"
      [] OTHER -> c

LowerSeq(cs) == [i \in DOMAIN cs |-> Lower(cs[i])]

\* SQL LIKE: % matches any run of characters, _ any one character
RECURSIVE Like(_, _)
Like(cs, pattern) ==
    IF pattern = << >> THEN cs = << >>
    ELSE IF Head(pattern) = "%"
    THEN Like(cs, Tail(pattern)) \/ (cs # << >> /\ Like(Tail(cs), pattern))
    ELSE /\ cs # << >>
         /\ (Head(pattern) = "_" \/ Head(pattern) = Head(cs))
         /\ Like(Tail(cs), Tail(pattern))

\* models.Book.genre.ilike(f"%{genre}%"): lower(genre) LIKE lower(pattern)
GenreILike(book_genre, genre) ==
    Like(LowerSeq(Chars(book_genre)),
         LowerSeq(<<"%">> \o Chars(genre) \o <<"%">>))

\* the genre query parameter: None when the request has none
GenreArgs == {None, "", "fic", "FI", "ci-", "Sci_Fi", "on", "x", "_", "%"}

\* GET /health
HealthCheck(api_key) ==
    /\ UNCHANGED <<authors, books, loans, now, wk>>
    /\ last' = IF RouteAuth("health_check", api_key) # 0 THEN Denied(api_key)
               ELSE Response("health_check", 200, << >>,
                             [status |-> "healthy", service |-> "library-api"])

\* GET /authors
ListAuthors(api_key, skip, limit) ==
    /\ UNCHANGED <<authors, books, loans, now, wk>>
    /\ last' = IF RouteAuth("list_authors", api_key) # 0 THEN Denied(api_key)
               ELSE Response("list_authors", 200, << >>,
                             Window(authors, skip, limit))

\* GET /authors/{author_id}: the author with the books that refer to it
GetAuthor(api_key, author_id) ==
    LET OfAuthor(b) == b.author_id = author_id IN
    /\ UNCHANGED <<authors, books, loans, now, wk>>
    /\ last' = IF RouteAuth("get_author", api_key) # 0 THEN Denied(api_key)
               ELSE IF AuthorsById(authors, author_id) = {}
               THEN Response("get_author", 404,
                             <<"Author not found", author_id>>, NoBody)
               ELSE Response("get_author", 200, << >>,
                             [author |-> CHOOSE a \in AuthorsById(authors,
                                                                  author_id) :
                                           TRUE,
                              books |-> SelectSeq(books, OfAuthor)])

\* GET /books
ListBooks(api_key, skip, limit, genre) ==
    LET Matches(b) == GenreILike(b.genre, genre)
        query == IF genre # None /\ genre # "" THEN SelectSeq(books, Matches)
                                               ELSE books IN
    /\ UNCHANGED <<authors, books, loans, now, wk>>
    /\ last' = IF RouteAuth("list_books", api_key) # 0 THEN Denied(api_key)
               ELSE Response("list_books", 200, << >>,
                             Window(query, skip, limit))

\* GET /books/{book_id}: the book with its loan records
GetBook(api_key, book_id) ==
    LET OfBook(l) == l.book_id = book_id IN
    /\ UNCHANGED <<authors, books, loans, now, wk>>
    /\ last' = IF RouteAuth("get_book", api_key) # 0 THEN Denied(api_key)
               ELSE IF BooksById(books, book_id) = {}
               THEN Response("get_book", 404,
                             <<"Book not found", book_id>>, NoBody)
               ELSE Response("get_book", 200, << >>,
                             [book |-> CHOOSE b \in BooksById(books, book_id) :
                                         TRUE,
                              loan_records |-> SelectSeq(loans, OfBook)])

\* list_loans taking its window before it filters
ListLoansWindowFirst(api_key, skip, limit, active_only) ==
    LET Active(l) == l.is_returned = FALSE
        page == Window(loans, skip, limit) IN
    /\ UNCHANGED <<authors, books, loans, now, wk>>
    /\ last' = IF RouteAuth("list_loans", api_key) # 0 THEN Denied(api_key)
               ELSE Response("list_loans", 200, << >>,
                             IF active_only THEN SelectSeq(page, Active)
                                            ELSE page)

\* GET /loans
ListLoans(api_key, skip, limit, active_only) ==
    LET Active(l) == l.is_returned = FALSE
        query == IF active_only THEN SelectSeq(loans, Active) ELSE loans IN
    /\ UNCHANGED <<authors, books, loans, now, wk>>
    /\ last' = IF RouteAuth("list_loans", api_key) # 0 THEN Denied(api_key)
               ELSE Response("list_loans", 200, << >>,
                             Window(query, skip, limit))

----------------------------------------------------------------------------
(* Specification of one call: the service, in a store it reaches serving   *)
(* requests one at a time, is given one request, of any route, with any    *)
(* key and any arguments.                                                  *)

SeedBook2SciFi == BookRow(2, "Emma", "Sci-Fi", "2222222222", 1)
SeedLoan2 == LoanRow(2, 1, "Jane", 2)
SeedLoan2OfBook2 == LoanRow(2, 2, "Jane", 1)

CallSeeds ==
    Seeds \cup
    { Seed(<<SeedAuthor>>, <<SeedBook1, SeedBook2SciFi>>, << >>, 0),
      Seed(<<SeedAuthor>>, <<SeedBook1, SeedBook2>>,
           <<ReturnedRow(SeedLoan, 1), SeedLoan2>>, 3),
      Seed(<<SeedAuthor>>, <<SeedBook1, SeedBook2>>,
           <<SeedLoan, SeedLoan2OfBook2>>, 2) }

InitCall ==
    /\ \E s \in CallSeeds :
          /\ authors = s.authors
          /\ books = s.books
          /\ loans = s.loans
          /\ now = s.now
    /\ last = Response("none", 0, << >>, NoBody)
    /\ wk = [w \in Workers |-> Idle]

\* no request has been served since the store was reached
Fresh == last.op = "none"

NextCall ==
    \/ \E k \in Keys, n \in Names, b \in Bios : Fresh /\ CreateAuthor(k, n, b)
    \/ \E k \in Keys, t \in UpdateTitles, g \in UpdateGenres, i \in Isbns,
          a \in AuthorIds : Fresh /\ CreateBook(k, t, g, i, a)
    \/ \E k \in Keys, id \in BookIds, d \in BookUpdateDatas :
          Fresh /\ UpdateBook(k, id, d)
    \/ \E k \in Keys, id \in BookIds, n \in Borrowers :
          Fresh /\ LoanBook(k, id, n)
    \/ \E k \in Keys, id \in LoanIds : Fresh /\ ReturnBook(k, id)
    \/ \E k \in Keys : Fresh /\ HealthCheck(k)
    \/ \E k \in Keys, sk \in Skips, lim \in Limits :
          Fresh /\ ListAuthors(k, sk, lim)
    \/ \E k \in Keys, id \in AuthorIds : Fresh /\ GetAuthor(k, id)
    \/ \E k \in Keys, sk \in Skips, lim \in Limits, g \in GenreArgs :
          Fresh /\ ListBooks(k, sk, lim, g)
    \/ \E k \in Keys, id \in BookIds : Fresh /\ GetBook(k, id)
    \/ \E k \in Keys, sk \in Skips, lim \in Limits, ao \in BOOLEAN :
          Fresh /\ ListLoans(k, sk, lim, ao)

SpecCall == InitCall /\ [][NextCall]_vars

----------------------------------------------------------------------------
(* Properties of Spec.  last.op names the handler that answered the last   *)
(* request (verify_api_key when the key was rejected), so a step with      *)
(* last'.op = "loan_book" is a loan_book call that passed the key check.   *)

ActiveCount(book_id) ==
    Cardinality({i \in DOMAIN loans :
                    loans[i].book_id = book_id /\ ~loans[i].is_returned})

IsbnHeld(isbn) == \E i \in DOMAIN books : books[i].isbn = isbn

\* C1: in every state reached by CreateAuthor, CreateBook, UpdateBook,
\* LoanBook and ReturnBook calls, each run as one step, every book has at
\* most one loan record with is_returned = FALSE.
C1_AtMostOneActiveLoan ==
    \A i \in DOMAIN books : ActiveCount(books[i].id) <= 1

\* a book that was loaned, returned and loaned again: one active loan beside
\* a returned one
C1_Witness ==
    /\ last.op = "loan_book" /\ last.status = 201
    /\ \E i \in DOMAIN loans :
          /\ loans[i].is_returned
          /\ loans[i].book_id = last.body.book_id
    /\ ActiveCount(last.body.book_id) = 1

\* C3: LoanBook on an existing book with an active loan fails with 400 and
\* leaves the loan records, with all their fields, as they were.
C3_LoanOfLoanedBookConflicts ==
    [][\A k \in Keys, id \in BookIds, n \in Borrowers :
          (/\ last'.op = "loan_book"
           /\ AuthStatus(k) = 0
           /\ \E i \in DOMAIN books : books[i].id = id
           /\ ActiveCount(id) >= 1
           /\ LoanBook(k, id, n))
          => (/\ last'.status = 400
              /\ loans' = loans)]_vars

C3_Witness ==
    /\ last.op = "loan_book" /\ last.status = 400
    /\ \E i \in DOMAIN loans : ~loans[i].is_returned

\* C4: LoanBook on an existing book succeeds (201) exactly when the book has
\* no active loan, and a successful call appends one loan record with
\* is_returned = FALSE, returned_at absent and the requested borrower_name;
\* so it succeeds again once the book's active loan has been returned.
C4_LoanSucceedsIffNoActiveLoan ==
    [][\A k \in Keys, id \in BookIds, n \in Borrowers :
          (/\ last'.op = "loan_book"
           /\ AuthStatus(k) = 0
           /\ \E i \in DOMAIN books : books[i].id = id
           /\ LoanBook(k, id, n))
          => /\ (last'.status = 201) <=> (ActiveCount(id) = 0)
             /\ (last'.status = 201) =>
                   /\ Len(loans') = Len(loans) + 1
                   /\ SubSeq(loans', 1, Len(loans)) = loans
                   /\ loans'[Len(loans')].book_id = id
                   /\ loans'[Len(loans')].borrower_name = n
                   /\ loans'[Len(loans')].is_returned = FALSE
                   /\ loans'[Len(loans')].returned_at = NoTime
                   /\ last'.body = loans'[Len(loans')]]_vars

\* the second borrower gets the book after the first one's loan was returned
C4_Witness ==
    /\ last.op = "loan_book" /\ last.status = 201
    /\ last.body.borrower_name = "Jane"
    /\ last.body.is_returned = FALSE
    /\ \E i \in DOMAIN loans :
          /\ loans[i].book_id = last.body.book_id
          /\ loans[i].borrower_name = "John"
          /\ loans[i].is_returned
          /\ loans[i].id < last.body.id

\* C5: ReturnBook on an existing loan succeeds (200) when the loan is not
\* returned yet, setting is_returned and returned_at; called again on the
\* same loan it fails with 400 and leaves is_returned and returned_at (and
\* every loan record) as the first call set them.
C5_SecondReturnConflicts ==
    [][\A k \in Keys, id \in LoanIds :
          (/\ last'.op = "return_book"
           /\ AuthStatus(k) = 0
           /\ \E i \in DOMAIN loans : loans[i].id = id
           /\ ReturnBook(k, id))
          => \A i \in DOMAIN loans : loans[i].id = id =>
                /\ Len(loans') = Len(loans)
                /\ IF loans[i].is_returned
                   THEN /\ last'.status = 400
                        /\ loans' = loans
                   ELSE /\ last'.status = 200
                        /\ loans'[i].is_returned = TRUE
                        /\ loans'[i].returned_at = <<now>>]_vars

\* the second call was rejected, at a time later than the recorded return
C5_Witness ==
    /\ last.op = "return_book" /\ last.status = 400
    /\ \E i \in DOMAIN loans :
          /\ loans[i].is_returned
          /\ Len(loans[i].returned_at) = 1
          /\ loans[i].returned_at[1] < now

\* C6: a loan record with is_returned = TRUE keeps is_returned = TRUE
\* through every step of every operation.
C6_ReturnedStaysReturned ==
    [][\A i \in DOMAIN loans : loans[i].is_returned =>
          \E j \in DOMAIN loans' :
             loans'[j].id = loans[i].id /\ loans'[j].is_returned]_vars

\* a returned loan outlived a rejected second return and a later loan
C6_Witness ==
    /\ last.op = "return_book" /\ last.status = 400
    /\ \E i, j \in DOMAIN loans :
          /\ loans[i].is_returned
          /\ loans[j].book_id = loans[i].book_id
          /\ loans[j].id > loans[i].id

\* C7: in every state reached by CreateBook and UpdateBook calls, each run
\* as one step, no two distinct books have the same isbn.
C7_IsbnUnique ==
    \A i, j \in DOMAIN books : i # j => books[i].isbn # books[j].isbn

\* two books, after an update that asked for the other book's isbn
C7_Witness ==
    /\ Len(books) = 2
    /\ last.op = "update_book" /\ last.status = 400

\* C8: CreateBook with an existing author_id and an isbn some book holds
\* fails with 400 and leaves the books, with all their fields, as they were.
C8_DuplicateIsbnConflicts ==
    [][\A k \in Keys, t \in Titles, g \in Genres, i \in Isbns, a \in AuthorIds :
          (/\ last'.op = "create_book"
           /\ AuthStatus(k) = 0
           /\ \E x \in DOMAIN authors : authors[x].id = a
           /\ IsbnHeld(i)
           /\ CreateBook(k, t, g, i, a))
          => (/\ last'.status = 400
              /\ last'.detail = <<"ISBN already exists", i>>
              /\ books' = books)]_vars

C8_Witness ==
    /\ last.op = "create_book" /\ last.status = 400
    /\ Len(last.detail) = 2 /\ IsbnHeld(last.detail[2])

\* C10: CreateBook with an author_id no author has and an isbn some book
\* holds fails with 404, not 400.
C10_AuthorCheckedBeforeIsbn ==
    [][\A k \in Keys, t \in Titles, g \in Genres, i \in Isbns, a \in AuthorIds :
          (/\ last'.op = "create_book"
           /\ AuthStatus(k) = 0
           /\ ~\E x \in DOMAIN authors : authors[x].id = a
           /\ IsbnHeld(i)
           /\ CreateBook(k, t, g, i, a))
          => (/\ last'.status = 404
              /\ books' = books)]_vars

\* a 404 for the author when every isbn of the model is held by a book
C10_Witness ==
    /\ last.op = "create_book" /\ last.status = 404
    /\ \A i \in Isbns : IsbnHeld(i)

\* C13: a CreateBook, UpdateBook, LoanBook or ReturnBook call that ends in
\* 404 or 400 leaves the authors, books and loan records, with all their
\* fields, as they were before the call.
C13_FailedCallChangesNothing ==
    [][(/\ last'.op \in {"create_book", "update_book", "loan_book",
                         "return_book"}
        /\ last'.status \in {400, 404})
       => store' = store]_vars

\* a return of an unknown loan id was rejected while a returned and an
\* active loan are on record
C13_Witness ==
    /\ last.op = "return_book" /\ last.status = 404
    /\ \E i, j \in DOMAIN loans : loans[i].is_returned /\ ~loans[j].is_returned

\* C16: when LoanBook fails with 400, the borrower its message names is the
\* borrower_name of an active loan of the requested book (not of a returned
\* loan, not of a loan of another book).
C16_ConflictNamesCurrentBorrower ==
    [][(last'.op = "loan_book" /\ last'.status = 400) =>
       \A k \in Keys : AuthStatus(k) = 0 =>
       \A id \in BookIds, n \in Borrowers :
          LoanBook(k, id, n)
          => \E i \in DOMAIN loans :
                /\ loans[i].book_id = id
                /\ loans[i].is_returned = FALSE
                /\ last'.detail = <<"Book is already loaned out to",
                                    loans[i].borrower_name>>]_vars

\* the message named Jane, who holds a book that John had and returned
C16_Witness ==
    /\ last.op = "loan_book" /\ last.status = 400
    /\ last.detail[2] = "Jane"
    /\ \E i, j \in DOMAIN loans :
          /\ loans[i].borrower_name = "John" /\ loans[i].is_returned
          /\ loans[j].borrower_name = "Jane" /\ ~loans[j].is_returned
          /\ loans[i].book_id = loans[j].book_id

\* C17: in every reachable state a loan record has returned_at set exactly
\* when is_returned is true.
C17_ReturnedAtIffReturned ==
    \A i \in DOMAIN loans :
       (loans[i].returned_at # NoTime) <=> (loans[i].is_returned = TRUE)

\* two loans of two books, the first returned with its time, the second not
C17_Witness ==
    /\ Len(loans) = 2
    /\ loans[1].is_returned /\ Len(loans[1].returned_at) = 1
    /\ ~loans[2].is_returned /\ loans[2].returned_at = NoTime
    /\ loans[1].book_id # loans[2].book_id

ForeignKeysHold ==
    /\ \A i \in DOMAIN books :
          \E j \in DOMAIN authors : authors[j].id = books[i].author_id
    /\ \A i \in DOMAIN loans :
          \E j \in DOMAIN books : books[j].id = loans[i].book_id

\* C18: in every reachable state every book's author_id is the id of an
\* author and every loan's book_id is the id of a book; CreateBook with an
\* author_id no author has and LoanBook with a book_id no book has answer
\* 404 and leave the store as it was.
C18_ReferencesExist ==
    /\ []ForeignKeysHold
    /\ [][/\ (last'.op = "create_book") =>
              \A k \in Keys : AuthStatus(k) = 0 =>
              \A a \in AuthorIds : AuthorsById(authors, a) = {} =>
              \A t \in Titles, g \in Genres, i \in Isbns :
                 CreateBook(k, t, g, i, a)
                 => (last'.status = 404 /\ store' = store)
          /\ (last'.op = "loan_book") =>
              \A k \in Keys : AuthStatus(k) = 0 =>
              \A id \in BookIds : BooksById(books, id) = {} =>
              \A n \in Borrowers :
                 LoanBook(k, id, n)
                 => (last'.status = 404 /\ store' = store)]_vars

\* a loan of an unknown book was refused while a book is on loan
C18_Witness ==
    /\ last.op = "loan_book" /\ last.status = 404
    /\ \E i \in DOMAIN loans : ~loans[i].is_returned
    /\ \E i \in DOMAIN books : TRUE

Ids(tbl) == {tbl[i].id : i \in DOMAIN tbl}

\* C21: no step removes an author, book or loan id, and a create that
\* answers 201 returns an id that no record of its table had before the
\* call and that the table holds after it.
C21_IdsOnlyGrow ==
    [][/\ (authors' # authors) => Ids(authors) \subseteq Ids(authors')
       /\ (books' # books) => Ids(books) \subseteq Ids(books')
       /\ (loans' # loans) => Ids(loans) \subseteq Ids(loans')
       /\ (last'.op = "create_author" /\ last'.status = 201) =>
             (/\ last'.body.id \notin Ids(authors)
              /\ Ids(authors') = Ids(authors) \cup {last'.body.id})
       /\ (last'.op = "create_book" /\ last'.status = 201) =>
             (/\ last'.body.id \notin Ids(books)
              /\ Ids(books') = Ids(books) \cup {last'.body.id})
       /\ (last'.op = "loan_book" /\ last'.status = 201) =>
             (/\ last'.body.id \notin Ids(loans)
              /\ Ids(loans') = Ids(loans) \cup {last'.body.id})]_vars

\* the second book was created with an id of its own, after a loan and its
\* return
C21_Witness ==
    /\ last.op = "create_book" /\ last.status = 201
    /\ Len(books) = 2 /\ books[1].id # books[2].id
    /\ last.body.id = books[2].id
    /\ \E i \in DOMAIN loans : loans[i].is_returned

\* C22: a ReturnBook that answers 200 changes only is_returned and
\* returned_at of the loan with the given id: that loan's id, book_id,
\* borrower_name and loaned_at, every other loan, and all books and authors
\* stay as they were.
C22_ReturnChangesFlagAndTimeOnly ==
    [][(last'.op = "return_book" /\ last'.status = 200) =>
       \A k \in Keys : AuthStatus(k) = 0 =>
       \A id \in LoanIds :
          ReturnBook(k, id)
          => /\ authors' = authors
             /\ books' = books
             /\ Len(loans') = Len(loans)
             /\ \A i \in DOMAIN loans :
                   IF loans[i].id = id
                   THEN /\ loans'[i].id = loans[i].id
                        /\ loans'[i].book_id = loans[i].book_id
                        /\ loans'[i].borrower_name = loans[i].borrower_name
                        /\ loans'[i].loaned_at = loans[i].loaned_at
                        /\ loans'[i].is_returned = TRUE
                        /\ Len(loans'[i].returned_at) = 1
                   ELSE loans'[i] = loans[i]]_vars

\* the second loan was returned, later than it was made, while the first
\* loan is still out
C22_Witness ==
    /\ last.op = "return_book" /\ last.status = 200
    /\ Len(loans) = 2
    /\ last.body = loans[2]
    /\ loans[2].loaned_at < loans[2].returned_at[1]
    /\ ~loans[1].is_returned

----------------------------------------------------------------------------
(* Properties of SpecConc *)

Finished(w, op) == wk[w].pc = "done" /\ wk[w].op = op

\* C2: two LoanBook calls for the same book that run at the same time do
\* not both succeed, and the book never has two active loans.
C2_ConcurrentLoansExclusive ==
    /\ \A i \in DOMAIN books : ActiveCount(books[i].id) <= 1
    /\ \A v, w \in Workers :
          (/\ v # w
           /\ Finished(v, "loan_book") /\ Finished(w, "loan_book")
           /\ wk[v].req.book_id = wk[w].req.book_id)
          => ~(wk[v].resp.status = 201 /\ wk[w].resp.status = 201)

\* the isbn a create_book or update_book request asks for, None when the
\* request supplies none
TargetIsbn(w) ==
    IF wk[w].op = "create_book" THEN wk[w].req.isbn
    ELSE IF wk[w].op = "update_book" /\ "isbn" \in DOMAIN wk[w].req.update_data
    THEN wk[w].req.update_data["isbn"]
    ELSE None

\* C9: when CreateBook or UpdateBook calls for the same isbn run at the same
\* time, at most one book ends up holding the isbn and a call that fails
\* fails with one of the explicit kinds (400 Conflict), never an
\* unclassified failure.
C9_ConcurrentIsbnConflictClassified ==
    /\ \A i, j \in DOMAIN books : i # j => books[i].isbn # books[j].isbn
    /\ \A w \in Workers :
          (/\ wk[w].pc = "done"
           /\ wk[w].op \in {"create_book", "update_book"}
           /\ TargetIsbn(w) \in Isbns)
          => wk[w].resp.status \in {200, 201, 400, 404, 401, 403}

----------------------------------------------------------------------------
(* Properties of SpecBooks *)

BookAt(id) == CHOOSE b \in BooksById(books, id) : TRUE

\* C11: a successful UpdateBook sets each of title, genre and isbn that the
\* caller supplied to the supplied value and leaves every other field of the
\* book, and every other book, as it was; with nothing supplied the book is
\* unchanged; the response is the book as stored.
C11_UpdateChangesSuppliedFieldsOnly ==
    [][(last'.op = "update_book" /\ last'.status = 200) =>
       \A k \in Keys : AuthStatus(k) = 0 =>
       \A id \in BookIds : BooksById(books, id) # {} =>
       \A d \in BookUpdateDatas :
          UpdateBook(k, id, d)
          => /\ Len(books') = Len(books)
             /\ \A i \in DOMAIN books :
                   IF books[i].id = id
                   THEN /\ \A f \in UpdateFields :
                             books'[i][f] = IF f \in DOMAIN d THEN d[f]
                                                              ELSE books[i][f]
                        /\ books'[i].id = books[i].id
                        /\ books'[i].author_id = books[i].author_id
                        /\ (DOMAIN d = {}) => (books'[i] = books[i])
                        /\ last'.body = books'[i]
                   ELSE books'[i] = books[i]]_vars

\* an update gave a book a title no book is created with and left the
\* genre it was created with
C11_Witness ==
    /\ last.op = "update_book" /\ last.status = 200
    /\ last.body.title = "Emma"
    /\ last.body.genre \in Genres
    /\ BookAt(last.body.id) = last.body

----------------------------------------------------------------------------
(* Properties of SpecCall *)

\* what a call of a protected route with key k must give: 401 without a
\* key, 403 with a key that is not the secret, the store untouched in both
\* cases, and the answer of the route's own handler with the secret
KeyGate(k, op) ==
    /\ (k = None) =>
          (/\ last'.op = "verify_api_key" /\ last'.status = 401
           /\ store' = store)
    /\ (k # None /\ k # AUTH_KEY) =>
          (/\ last'.op = "verify_api_key" /\ last'.status = 403
           /\ store' = store)
    /\ (k = AUTH_KEY) => (last'.op = op)

\* C14: each of create_author, create_book, update_book, loan_book and
\* return_book answers 401 to a call without key and 403 to a call with a
\* key other than the secret, whatever the store and the arguments (the
\* book or loan named may not exist), and leaves the store as it was; with
\* the secret the handler itself answers.
C14_KeyCheckedFirst ==
    [][\A k \in Keys :
          /\ \A n \in Names, b \in Bios :
                CreateAuthor(k, n, b) => KeyGate(k, "create_author")
          /\ \A t \in UpdateTitles, g \in UpdateGenres, i \in Isbns,
                a \in AuthorIds :
                CreateBook(k, t, g, i, a) => KeyGate(k, "create_book")
          /\ \A id \in BookIds, d \in BookUpdateDatas :
                UpdateBook(k, id, d) => KeyGate(k, "update_book")
          /\ \A id \in BookIds, n \in Borrowers :
                LoanBook(k, id, n) => KeyGate(k, "loan_book")
          /\ \A id \in LoanIds :
                ReturnBook(k, id) => KeyGate(k, "return_book")]_vars

\* a call with a wrong key was refused in a store with two books and two
\* loans
C14_Witness ==
    /\ last.op = "verify_api_key" /\ last.status = 403
    /\ Len(books) = 2 /\ Len(loans) = 2

\* a step of a read route ends in that route's answer or in the refusal of
\* the key, so only such steps are compared
AnswerOf(op) == last'.op \in {op, "verify_api_key"}

\* C15: health_check, list_authors, get_author, list_books, get_book and
\* list_loans answer a call the same way whether it carries no key, a wrong
\* key or the secret: a step is the call with key k exactly when it is the
\* same call with the secret, and it is never the refusal of a key.
C15_ReadsIgnoreKey ==
    [][\A k \in Keys \ {AUTH_KEY} :
          /\ AnswerOf("health_check") =>
                /\ HealthCheck(k) <=> HealthCheck(AUTH_KEY)
                /\ HealthCheck(k) => last'.op = "health_check"
          /\ AnswerOf("list_authors") =>
             \A sk \in Skips, lim \in Limits :
                /\ ListAuthors(k, sk, lim) <=> ListAuthors(AUTH_KEY, sk, lim)
                /\ ListAuthors(k, sk, lim) => last'.op = "list_authors"
          /\ AnswerOf("get_author") =>
             \A id \in AuthorIds :
                /\ GetAuthor(k, id) <=> GetAuthor(AUTH_KEY, id)
                /\ GetAuthor(k, id) => last'.op = "get_author"
          /\ AnswerOf("list_books") =>
             \A sk \in Skips, lim \in Limits, g \in GenreArgs :
                /\ ListBooks(k, sk, lim, g) <=> ListBooks(AUTH_KEY, sk, lim, g)
                /\ ListBooks(k, sk, lim, g) => last'.op = "list_books"
          /\ AnswerOf("get_book") =>
             \A id \in BookIds :
                /\ GetBook(k, id) <=> GetBook(AUTH_KEY, id)
                /\ GetBook(k, id) => last'.op = "get_book"
          /\ AnswerOf("list_loans") =>
             \A sk \in Skips, lim \in Limits, ao \in BOOLEAN :
                /\ ListLoans(k, sk, lim, ao) <=> ListLoans(AUTH_KEY, sk, lim, ao)
                /\ ListLoans(k, sk, lim, ao) => last'.op = "list_loans"]_vars

\* a book was read with its two loan records
C15_Witness ==
    /\ last.op = "get_book" /\ last.status = 200
    /\ Len(last.body.loan_records) = 2

\* the rows of a sequence at the positions skip+1 .. skip+limit, in order
Page(rows, skip, limit) ==
    LET at == {p \in DOMAIN rows : skip < p /\ p <= skip + limit} IN
    [i \in 1..Cardinality(at) |-> rows[skip + i]]

\* C19: ListLoans answers with loan records in insertion (id) order; with
\* active_only the records with is_returned = FALSE are selected first and
\* the window skip+1 .. skip+limit is taken over the selected ones, so the
\* answer is empty when skip is not less than their number.
C19_ListLoansFiltersThenWindows ==
    [][(last'.op = "list_loans") =>
       \A k \in Keys, sk \in Skips, lim \in Limits, ao \in BOOLEAN :
          ListLoans(k, sk, lim, ao)
          => LET Unreturned(l) == ~l.is_returned
                 selected == IF ao THEN SelectSeq(loans, Unreturned) ELSE loans
             IN /\ last'.status = 200
                /\ last'.body = Page(selected, sk, lim)
                /\ (sk >= Len(selected)) => (last'.body = << >>)
                /\ ao => \A i \in DOMAIN last'.body :
                             ~last'.body[i].is_returned
                /\ \A i, j \in DOMAIN last'.body :
                      i < j => last'.body[i].id < last'.body[j].id]_vars

\* the answer is the second loan alone, the first one being returned
C19_Witness ==
    /\ last.op = "list_loans" /\ last.status = 200
    /\ Len(loans) = 2 /\ loans[1].is_returned /\ ~loans[2].is_returned
    /\ last.body = <<loans[2]>>

\* sub occurs in cs as a run of consecutive characters
ContainsSeq(cs, sub) ==
    \E i \in 0..(Len(cs) - Len(sub)) : SubSeq(cs, i + 1, i + Len(sub)) = sub

\* C20: ListBooks with a genre argument answers with exactly the books whose
\* genre contains the argument as a substring, letter case ignored, in
\* insertion order, the window skip+1 .. skip+limit taken over the selected
\* books; without a genre argument it selects every book.
C20_ListBooksGenreSubstring ==
    [][(last'.op = "list_books") =>
       \A k \in Keys, sk \in Skips, lim \in Limits, g \in GenreArgs :
          ListBooks(k, sk, lim, g)
          => LET HasGenre(b) == ContainsSeq(LowerSeq(Chars(b.genre)),
                                            LowerSeq(Chars(g)))
                 selected == IF g = None THEN books
                                         ELSE SelectSeq(books, HasGenre)
             IN /\ last'.status = 200
                /\ last'.body = Page(selected, sk, lim)]_vars

\* C23: an UpdateBook call with the secret and a body the schema accepts,
\* explicit nulls for title, genre or isbn included, answers 200, 404 or 400
\* and nothing else; after it no book has a null title, genre or isbn; and
\* the ids and author_ids of the books and the loan records are as before.
C23_UpdateNeverFailsOtherwise ==
    [][(last'.op = "update_book") =>
       \A k \in Keys : AuthStatus(k) = 0 =>
       \A id \in BookIds, d \in BookUpdateDatas :
          UpdateBook(k, id, d)
          => /\ last'.status \in {200, 404, 400}
             /\ \A i \in DOMAIN books' :
                   /\ books'[i].title # None
                   /\ books'[i].genre # None
                   /\ books'[i].isbn # None
             /\ Len(books') = Len(books)
             /\ \A i \in DOMAIN books :
                   /\ books'[i].id = books[i].id
                   /\ books'[i].author_id = books[i].author_id
             /\ loans' = loans]_vars

====
